---- MODULE Spec2Model ----
(***************************************************************************)
(* Model of the notebook sts-bert-huggingface-severless-demo.ipynb: the    *)
(* cells run top to bottom (dataset, tokenization, publication, training,  *)
(* two deployments, single-example inference, two evaluation loops, two    *)
(* reports, cleanup) against the training and inference platform.          *)
(***************************************************************************)
EXTENDS Integers, Sequences, FiniteSets, TLC

VARIABLES
    pc,                      \* the cell (or the step inside a cell) the kernel is at
    status,                  \* "running" | "failed" (unhandled exception) | "finished"
    resume,                  \* where a re-executed cell returns to ("none": no re-execution)
    max_len,                 \* tokenize's max_len argument
    dataset_train, dataset_val, dataset_test,
    dataset_train_tokenized, dataset_val_tokenized,
    s3,                      \* objects written with save_to_disk, by address
    job,                     \* the training job of huggingface_estimator
    clock,                   \* time.time() / time.gmtime(), in seconds
    sm_models, sm_endpoints, \* the platform's model records and endpoints
    deletes,                 \* the delete calls the platform has received
    rt_predictor, sl_predictor,
    rand, true_label, sentence_pair, pred,
    request,                 \* the last request sent to an endpoint
    i, preds, labels, preds2, labels2,
    sent,                    \* requests sent by the evaluation cell being executed
    runs, first_preds,       \* per loop: executions started, and the first one's result
    printed                  \* the report cells' output

vars == << pc, status, resume, max_len, dataset_train, dataset_val, dataset_test,
           dataset_train_tokenized, dataset_val_tokenized, s3, job, clock,
           sm_models, sm_endpoints, deletes, rt_predictor, sl_predictor,
           rand, true_label, sentence_pair, pred, request,
           i, preds, labels, preds2, labels2, sent, runs, first_preds, printed >>

\* ---------------------------------------------------------------- bounds
\* records in the train partition
NTrain == 1
\* records in the test partition
NTest == 2
\* records in a batch handed to tokenize
MaxBatch == 2
\* smallest max_len tried
MinMaxLen == 5
\* largest max_len tried
MaxMaxLen == 8
\* the clock's last tick
MaxClock == 1
\* executions of one evaluation cell
MaxRuns == 2

\* ---------------------------------------------------------------- data
None == [none |-> TRUE]

\* A sentence is a sequence of sub-word units.
Sentences == { <<"a">>, <<"a", "b">>, <<"b", "a", "b">> }

Records == [sentence1 : Sentences, sentence2 : Sentences, label : {0, 1}]

\* The partitions load_dataset returns for the bounded runs.
SmallRecords ==
    { [sentence1 |-> <<"a">>, sentence2 |-> <<"a", "b">>, label |-> 0],
      [sentence1 |-> <<"b", "a", "b">>, sentence2 |-> <<"a", "b">>, label |-> 1],
      [sentence1 |-> <<"a", "b">>, sentence2 |-> <<"a", "b">>, label |-> 1] }

\* The train partition of n records; the validation partition is its first record.
TrainPartition(n) ==
    [k \in 1..n |->
        IF k % 2 = 1
        THEN [sentence1 |-> <<"a", "b">>, sentence2 |-> <<"b", "a", "b">>, label |-> 0]
        ELSE [sentence1 |-> <<"a">>, sentence2 |-> <<"a">>, label |-> 1]]

SeqsOfLen(S, n) == [1..n -> S]

SeqsUpTo(S, n) == UNION { SeqsOfLen(S, k) : k \in 1..n }

\* ---------------------------------------------------------------- tokenizer
\* <s>
BOS == 0
\* </s>
EOS == 2

TokenId(w) == IF w = "a" THEN 10 ELSE 11

Ids(s) == [k \in 1..Len(s) |-> TokenId(s[k])]

\* truncation=True is 'longest_first': one token at a time is dropped from
\* the end of the longer sequence, from the second one on a tie.
RECURSIVE TruncateLens(_, _, _)
TruncateLens(n1, n2, remove) ==
    IF remove <= 0 \/ (n1 = 0 /\ n2 = 0) THEN << n1, n2 >>
    ELSE IF n1 > n2 THEN TruncateLens(n1 - 1, n2, remove - 1)
    ELSE TruncateLens(n1, n2 - 1, remove - 1)

\* <s> A </s></s> B </s>
NumSpecialPair == 4

\* tokenizer(s1, s2, max_length=m, truncation=True) for one pair; no padding
\* argument is given, so nothing is padded.
EncodePairNoPad(s1, s2, m) ==
    LET a == Ids(s1)
        b == Ids(s2)
        keep == TruncateLens(Len(a), Len(b), Len(a) + Len(b) + NumSpecialPair - m)
        ids == << BOS >> \o SubSeq(a, 1, keep[1]) \o << EOS, EOS >>
                         \o SubSeq(b, 1, keep[2]) \o << EOS >>
    IN  [input_ids |-> ids, attention_mask |-> [k \in 1..Len(ids) |-> 1]]

\* Drops the truncation: the pair is encoded whole.
EncodePairWhole(s1, s2, m) ==
    EncodePairNoPad(s1, s2, Len(s1) + Len(s2) + NumSpecialPair)

EncodePair(s1, s2, m) == EncodePairNoPad(s1, s2, m)

Column(batch, f) == [k \in 1..Len(batch) |-> batch[k][f]]

\* def tokenize(batch, max_len=128): the batch is given by columns and the
\* result is the two columns the tokenizer adds.
tokenize(batch, m) ==
    LET s1 == Column(batch, "sentence1")
        s2 == Column(batch, "sentence2")
        enc == [k \in 1..Len(s1) |-> EncodePair(s1[k], s2[k], m)]
    IN  [input_ids |-> Column(enc, "input_ids"),
         attention_mask |-> Column(enc, "attention_mask")]

DefaultMaxLen == 128

\* dataset.map(tokenize, batched=True, batch_size=len(dataset)): one batch,
\* the columns of the result are added to the records.
MapTokenize(dataset, m) ==
    LET t == tokenize(dataset, m)
    IN  [k \in 1..Len(dataset) |->
            [sentence1 |-> dataset[k].sentence1, sentence2 |-> dataset[k].sentence2,
             label |-> dataset[k].label,
             input_ids |-> t.input_ids[k], attention_mask |-> t.attention_mask[k]]]

\* rename_column("label", "labels"); set_format(columns=[...]) keeps three columns.
RenameAndFormat(dataset) ==
    [k \in 1..Len(dataset) |->
        [input_ids |-> dataset[k].input_ids,
         attention_mask |-> dataset[k].attention_mask,
         labels |-> dataset[k].label]]

\* ---------------------------------------------------------------- control
\* The evaluation cells come before the single-example cells, and the
\* cleanup cell before the reports.
NextCellReordered(c) ==
    CASE c = "load_dataset" -> "tokenize"
      [] c = "tokenize"     -> "format"
      [] c = "format"       -> "publish"
      [] c = "publish"      -> "fit"
      [] c = "fit"          -> "deploy_rt"
      [] c = "deploy_rt"    -> "deploy_sl"
      [] c = "deploy_sl"    -> "eval_rt"
      [] c = "eval_rt"      -> "sample"
      [] c = "sample"       -> "infer_rt"
      [] c = "infer_rt"     -> "infer_sl"
      [] c = "infer_sl"     -> "report_rt"
      [] c = "report_rt"    -> "eval_sl"
      [] c = "eval_sl"      -> "report_sl"
      [] c = "report_sl"    -> "cleanup"
      [] OTHER              -> "done"

\* The cleanup cell comes before the evaluation cells.
NextCellCleanupBeforeEval(c) ==
    CASE c = "load_dataset" -> "tokenize"
      [] c = "tokenize"     -> "format"
      [] c = "format"       -> "publish"
      [] c = "publish"      -> "fit"
      [] c = "fit"          -> "deploy_rt"
      [] c = "deploy_rt"    -> "deploy_sl"
      [] c = "deploy_sl"    -> "sample"
      [] c = "sample"       -> "infer_rt"
      [] c = "infer_rt"     -> "infer_sl"
      [] c = "infer_sl"     -> "cleanup"
      [] c = "cleanup"      -> "eval_rt"
      [] c = "eval_rt"      -> "report_rt"
      [] c = "report_rt"    -> "eval_sl"
      [] c = "eval_sl"      -> "report_sl"
      [] OTHER              -> "done"

\* The cells in notebook order; a cell with several remote calls has one
\* position per call.
NextCell(c) ==
    CASE c = "load_dataset" -> "tokenize"
      [] c = "tokenize"     -> "format"
      [] c = "format"       -> "publish"
      [] c = "publish"      -> "fit"
      [] c = "fit"          -> "deploy_rt"
      [] c = "deploy_rt"    -> "deploy_sl"
      [] c = "deploy_sl"    -> "sample"
      [] c = "sample"       -> "infer_rt"
      [] c = "infer_rt"     -> "infer_sl"
      [] c = "infer_sl"     -> "eval_rt"
      [] c = "eval_rt"      -> "report_rt"
      [] c = "report_rt"    -> "eval_sl"
      [] c = "eval_sl"      -> "report_sl"
      [] c = "report_sl"    -> "cleanup"
      [] c = "cleanup"      -> "done"
      [] OTHER              -> "done"

\* The cell a position belongs to.
CellOf(p) ==
    CASE p = "fit_wait" -> "fit"
      [] p = "infer_rt_score" -> "infer_rt"
      [] p = "infer_sl_score" -> "infer_sl"
      [] p = "eval_rt_loop" -> "eval_rt"
      [] p = "eval_sl_loop" -> "eval_sl"
      [] p \in {"cleanup_rt_endpoint", "cleanup_sl_model", "cleanup_sl_endpoint"} -> "cleanup"
      [] OTHER -> p

\* The stage of the workflow a cell belongs to (1 dataset .. 8 teardown; 9: past the last cell).
StageOf(p) ==
    LET c == CellOf(p)
    IN  CASE c = "load_dataset" -> 1
          [] c \in {"tokenize", "format"} -> 2
          [] c = "publish" -> 3
          [] c = "fit" -> 4
          [] c \in {"deploy_rt", "deploy_sl"} -> 5
          [] c \in {"sample", "infer_rt", "infer_sl"} -> 6
          [] c \in {"eval_rt", "report_rt", "eval_sl", "report_sl"} -> 7
          [] c = "cleanup" -> 8
          [] OTHER -> 9

\* Cells go on running after an error.
RunningDespiteError == status # "finished"

\* The kernel runs cells until one raises or the last one has ended.
Running == status = "running"

\* The current cell has run to its end: the next cell starts, or, for a cell
\* executed again on its own, the kernel returns to where it was.
Advance ==
    IF resume # "none"
    THEN /\ pc' = resume
         /\ resume' = "none"
         /\ status' = IF resume = "done" THEN "finished" ELSE "running"
    ELSE /\ pc' = NextCell(CellOf(pc))
         /\ resume' = resume
         /\ status' = IF NextCell(CellOf(pc)) = "done" THEN "finished" ELSE status

\* The exception is caught and the run goes on with the next cell.
RaiseSwallowed ==
    /\ pc' = NextCell(CellOf(pc))
    /\ resume' = "none"
    /\ status' = IF NextCell(CellOf(pc)) = "done" THEN "finished" ELSE status

\* An exception leaves the cell unhandled: the run stops at this cell; a cell
\* executed again on its own just ends.
Raise ==
    IF resume # "none"
    THEN /\ pc' = resume
         /\ resume' = "none"
         /\ status' = IF resume = "done" THEN "finished" ELSE "running"
    ELSE /\ pc' = pc
         /\ resume' = resume
         /\ status' = "failed"

dataVars == << max_len, dataset_train, dataset_val, dataset_test,
               dataset_train_tokenized, dataset_val_tokenized, s3 >>
platformVars == << sm_models, sm_endpoints, deletes, rt_predictor, sl_predictor >>
inferVars == << rand, true_label, sentence_pair, pred, request >>
evalVars == << i, preds, labels, preds2, labels2, sent, runs, first_preds, printed >>

\* ---------------------------------------------------------------- cells 1-3
Init ==
    /\ pc = "load_dataset" /\ status = "running" /\ resume = "none"
    /\ max_len = DefaultMaxLen
    /\ dataset_train = << >> /\ dataset_val = << >> /\ dataset_test = << >>
    /\ dataset_train_tokenized = << >> /\ dataset_val_tokenized = << >>
    /\ s3 = {}
    /\ job = None
    /\ clock = 0
    /\ sm_models = {} /\ sm_endpoints = {} /\ deletes = << >>
    /\ rt_predictor = None /\ sl_predictor = None
    /\ rand = 0 /\ true_label = 0 /\ sentence_pair = None /\ pred = << >>
    /\ request = None
    /\ i = 0 /\ preds = << >> /\ labels = << >> /\ preds2 = << >> /\ labels2 = << >>
    /\ sent = 0
    /\ runs = [l \in {"rt", "sl"} |-> 0]
    /\ first_preds = [l \in {"rt", "sl"} |-> << >>]
    /\ printed = << >>

\* dataset_train, dataset_val, dataset_test = load_dataset("paws", ...)
LoadDataset ==
    /\ Running /\ pc = "load_dataset"
    /\ \/ /\ \E te \in SeqsOfLen(SmallRecords, NTest) :
                /\ dataset_train' = TrainPartition(NTrain)
                /\ dataset_val' = << TrainPartition(NTrain)[1] >>
                /\ dataset_test' = te
          /\ Advance
       \/ /\ Raise
          /\ UNCHANGED << dataset_train, dataset_val, dataset_test >>
    /\ UNCHANGED << max_len, dataset_train_tokenized, dataset_val_tokenized, s3, job, clock,
                    platformVars, inferVars, evalVars >>

\* dataset_train_tokenized = dataset_train.map(tokenize, ...); the same for val
TokenizeDatasets ==
    /\ Running /\ pc = "tokenize"
    /\ dataset_train_tokenized' = MapTokenize(dataset_train, max_len)
    /\ dataset_val_tokenized' = MapTokenize(dataset_val, max_len)
    /\ Advance
    /\ UNCHANGED << max_len, dataset_train, dataset_val, dataset_test, s3, job, clock,
                    platformVars, inferVars, evalVars >>

\* rename_column / set_format on both tokenized partitions
FormatDatasets ==
    /\ Running /\ pc = "format"
    /\ dataset_train_tokenized' = RenameAndFormat(dataset_train_tokenized)
    /\ dataset_val_tokenized' = RenameAndFormat(dataset_val_tokenized)
    /\ Advance
    /\ UNCHANGED << max_len, dataset_train, dataset_val, dataset_test, s3, job, clock,
                    platformVars, inferVars, evalVars >>

training_input_path == "sts-paws-datasets/paws-tokenized/roberta-large/train"
val_input_path == "sts-paws-datasets/paws-tokenized/roberta-large/val"

\* save_to_disk(path, fs=s3): writing an address again replaces what it held.
SaveToDisk(store, path, data) ==
    { o \in store : o.path # path } \cup { [path |-> path, data |-> data] }

\* The two save_to_disk calls; the second may fail after the first has written.
Publish ==
    /\ Running /\ pc = "publish"
    /\ \/ /\ s3' = SaveToDisk(SaveToDisk(s3, training_input_path, dataset_train_tokenized),
                              val_input_path, dataset_val_tokenized)
          /\ Advance
       \/ /\ s3' = SaveToDisk(s3, training_input_path, dataset_train_tokenized)
          /\ Raise
       \/ /\ s3' = s3
          /\ Raise
    /\ UNCHANGED << max_len, dataset_train, dataset_val, dataset_test,
                    dataset_train_tokenized, dataset_val_tokenized, job, clock,
                    platformVars, inferVars, evalVars >>

\* ---------------------------------------------------------------- cell 4: training
\* The estimator's runtime: transformers_version, pytorch_version, py_version.
estimator_runtime ==
    [transformers_version |-> "4.6.1", pytorch_version |-> "1.7.1", py_version |-> "py36"]

\* What a trained artifact does with one input text.
Classifiers == {"always1", "parity"}

\* fit(..., job_name='sm-sts-blog-<time>'): the job is created Pending, or the
\* submission is refused.
FitSubmit ==
    /\ Running /\ pc = "fit"
    /\ \/ /\ \E t \in clock..MaxClock :
                /\ clock' = t
                /\ job' = [name |-> << "sm-sts-blog-", t >>, status |-> "Pending",
                           inputs |-> [train |-> training_input_path, test |-> val_input_path],
                           runtime |-> estimator_runtime,
                           artifact |-> None]
          /\ pc' = "fit_wait"
          /\ UNCHANGED << status, resume >>
       \/ /\ Raise
          /\ UNCHANGED << job, clock >>
    /\ UNCHANGED << dataVars, platformVars, inferVars, evalVars >>

\* The platform starts the job.
JobStart ==
    /\ job # None /\ job.status = "Pending"
    /\ job' = [job EXCEPT !.status = "Running"]
    /\ UNCHANGED << pc, status, resume, dataVars, clock, platformVars, inferVars, evalVars >>

\* The entry point ends without error: the job's artifact exists.
JobSucceed ==
    /\ job # None /\ job.status = "Running"
    /\ \E c \in Classifiers :
          job' = [job EXCEPT !.status = "Succeeded",
                             !.artifact = [job |-> job.name, classifier |-> c]]
    /\ UNCHANGED << pc, status, resume, dataVars, clock, platformVars, inferVars, evalVars >>

\* The entry point errors: no artifact.
JobFail ==
    /\ job # None /\ job.status = "Running"
    /\ job' = [job EXCEPT !.status = "Failed"]
    /\ UNCHANGED << pc, status, resume, dataVars, clock, platformVars, inferVars, evalVars >>

\* wait=False: fit returns as soon as the job is submitted.
FitReturnsNoWait(st) == TRUE

\* wait=True: fit returns normally once the job has succeeded.
FitReturns(st) == st = "Succeeded"

\* wait=True: fit raises once the job has failed.
FitRaises(st) == st = "Failed"

FitWait ==
    /\ Running /\ pc = "fit_wait"
    /\ \/ /\ FitReturns(job.status)
          /\ Advance
       \/ /\ FitRaises(job.status)
          /\ Raise
    /\ UNCHANGED << job, clock, dataVars, platformVars, inferVars, evalVars >>

\* ---------------------------------------------------------------- cell 5: deployment
rt_endpoint_name == [base |-> "sts-sbert-paws-roberta-base-realtime-inference", stamp |-> << >>]

sl_endpoint_name(t) == [base |-> "huggingface-serverless-ep", stamp |-> << t >>]

rt_capacity == [kind |-> "instance", instance_type |-> "ml.g4dn.xlarge", initial_instance_count |-> 1]

\* The second endpoint is given the first one's capacity.
serverless_config_instance == rt_capacity

\* ServerlessInferenceConfig(memory_size_in_mb=6144, max_concurrency=10)
serverless_config == [kind |-> "serverless", memory_size_in_mb |-> 6144, max_concurrency |-> 10]

\* 'huggingface' images are filed under the full transformers version;
\* a shorter version is an alias of one.
VersionAlias(v) ==
    CASE v = "4.6" -> "4.6.1"
      [] OTHER     -> v

\* Under a transformers version, the base framework's short name is an alias too.
BaseFrameworkAlias(b) ==
    CASE b = "pytorch1.7" -> "pytorch1.7.1"
      [] OTHER            -> b

\* The base framework an estimator's pytorch_version names.
PytorchBase(v) ==
    CASE v = "1.7.1" -> "pytorch1.7.1"
      [] v = "1.7"   -> "pytorch1.7"
      [] OTHER       -> "pytorch"

\* The runtime of the image a reference resolves to.
ImageRuntime(image) ==
    [transformers_version |-> VersionAlias(image.version),
     base_framework_version |-> BaseFrameworkAlias(image.base_framework_version),
     py_version |-> image.py_version]

\* The runtime a job of the estimator runs in and produces its artifact with.
JobRuntime(runtime) ==
    [transformers_version |-> runtime.transformers_version,
     base_framework_version |-> PytorchBase(runtime.pytorch_version),
     py_version |-> runtime.py_version]

\* The image is asked for the python of the notebook's kernel.
image_uri_py38 ==
    [framework |-> "huggingface", version |-> "4.6", base_framework_version |-> "pytorch1.7",
     py_version |-> "py38", image_scope |-> "inference"]

\* sagemaker.image_uris.retrieve(...): the runtime the image reference names.
image_uri ==
    [framework |-> "huggingface", version |-> "4.6", base_framework_version |-> "pytorch1.7",
     py_version |-> "py36", image_scope |-> "inference"]

\* The image the estimator derives from its own runtime when none is given.
default_image == [framework |-> "huggingface", version |-> "4.6.1",
                  base_framework_version |-> "pytorch1.7.1",
                  py_version |-> "py36", image_scope |-> "inference"]

EndpointNames(eps) == { e.name : e \in eps }

EndpointNamed(eps, n) == CHOOSE e \in eps : e.name = n

\* estimator.deploy can build a model only from a job that left an artifact.
Deployable == job # None /\ job.status = "Succeeded"

ModelRecord(name, image) == [name |-> name, artifact |-> job.artifact, image |-> image]

EndpointRecord(name, capacity) ==
    [name |-> name, capacity |-> capacity, model |-> name,
     artifact |-> job.artifact, status |-> "InService"]

\* huggingface_estimator.deploy(...): creates the model record and the
\* endpoint and returns once the endpoint is in service ("ok"); it raises
\* when the job left no artifact, when the name is taken, or when the
\* platform fails, after ("model_only") or before ("nothing") the model
\* record was created.
Deploy(name, capacity, image, outcome) ==
    \/ /\ outcome = "ok"
       /\ Deployable
       /\ name \notin EndpointNames(sm_endpoints)
       /\ sm_models' = sm_models \cup { ModelRecord(name, image) }
       /\ sm_endpoints' = sm_endpoints \cup { EndpointRecord(name, capacity) }
       /\ Advance
    \/ /\ outcome = "model_only"
       /\ Deployable
       /\ sm_models' = sm_models \cup { ModelRecord(name, image) }
       /\ sm_endpoints' = sm_endpoints
       /\ Raise
    \/ /\ outcome = "nothing"
       /\ sm_models' = sm_models
       /\ sm_endpoints' = sm_endpoints
       /\ Raise

DeployOutcomes == {"ok", "model_only", "nothing"}

DeployRt ==
    /\ Running /\ pc = "deploy_rt"
    /\ \E o \in DeployOutcomes :
          /\ Deploy(rt_endpoint_name, rt_capacity, default_image, o)
          /\ rt_predictor' = IF o = "ok" THEN [endpoint_name |-> rt_endpoint_name]
                             ELSE rt_predictor
    /\ UNCHANGED << dataVars, job, clock, deletes, sl_predictor, inferVars, evalVars >>

DeploySl ==
    /\ Running /\ pc = "deploy_sl"
    /\ \E t \in clock..MaxClock, o \in DeployOutcomes :
          /\ clock' = t
          /\ Deploy(sl_endpoint_name(t), serverless_config, image_uri, o)
          /\ sl_predictor' = IF o = "ok" THEN [endpoint_name |-> sl_endpoint_name(t)]
                             ELSE sl_predictor
    /\ UNCHANGED << dataVars, job, deletes, rt_predictor, inferVars, evalVars >>

\* ---------------------------------------------------------------- cell 6: inference
\* JSON values carry their type.
Str(x) == [kind |-> "str", val |-> x]
List(xs) == [kind |-> "list", val |-> xs]

\* '[CLS] ' + sent_1 + ' [SEP] ' + sent_2 + ' [SEP]'
Template(sent_1, sent_2) ==
    << "[CLS] " >> \o sent_1 \o << " [SEP] " >> \o sent_2 \o << " [SEP]" >>

\* The payload of the single-example cells: {"inputs": sentence_pair}
SinglePayload(text) == [inputs |-> text]

\* The loops leave the delimiters out.
LoopPayloadNoTemplate(sent_1, sent_2) == [inputs |-> List(<< Str(sent_1 \o sent_2) >>)]

\* The payload of the loops: {"inputs": ['[CLS] ' + ... + ' [SEP]']}
LoopPayload(sent_1, sent_2) == [inputs |-> List(<< Str(Template(sent_1, sent_2)) >>)]

DigitChars == << "0", "1", "2", "3", "4", "5", "6", "7", "8", "9" >>

\* "LABEL_<n>" for a class n below ten, as characters.
LabelOf(n) == << "L", "A", "B", "E", "L", "_", DigitChars[n + 1] >>

\* The class an artifact gives a text.
Classify(c, text) ==
    CASE c = "always1" -> 1
      [] OTHER -> Len(text) % 2

Score(c, text) == IF c = "parity" THEN 60 + Len(text) ELSE 99   \* in percent

Result(c, text) == [label |-> LabelOf(Classify(c, text)), score |-> Score(c, text)]

\* The served model answers a string with a list of one result and a list
\* of strings with one result per string.
Respond(c, payload) ==
    IF payload.inputs.kind = "str"
    THEN << Result(c, payload.inputs.val) >>
    ELSE [k \in 1..Len(payload.inputs.val) |-> Result(c, payload.inputs.val[k].val)]

\* An endpoint that was deleted still answers.
InvokeStale(eps, name, payload) ==
    { [ok |-> TRUE, body |-> Respond("always1", payload)], [ok |-> FALSE] }

\* predictor.predict(payload): the outcomes of one request to the endpoint
\* of that name; there is no answer from a name that has no endpoint.
Invoke(eps, name, payload) ==
    IF name \in EndpointNames(eps)
    THEN { [ok |-> TRUE, body |-> Respond(EndpointNamed(eps, name).artifact.classifier, payload)],
           [ok |-> FALSE] }
    ELSE { [ok |-> FALSE] }

\* rand = random.randrange(0, 8000), the size of the test partition; the cell
\* builds sentence_pair, a string.
Sample ==
    /\ Running /\ pc = "sample"
    /\ \E r \in 0..(NTest - 1) :
          /\ rand' = r
          /\ true_label' = dataset_test[r + 1].label
          /\ sentence_pair' = Str(Template(dataset_test[r + 1].sentence1,
                                           dataset_test[r + 1].sentence2))
    /\ Advance
    /\ UNCHANGED << dataVars, job, clock, platformVars, pred, request, evalVars >>

PredictorOf(l) == IF l = "rt" THEN rt_predictor ELSE sl_predictor

\* One predict call of a single-example cell (the label's, then the score's).
InferCall(l, at, then) ==
    /\ Running /\ pc = at
    /\ LET payload == SinglePayload(sentence_pair)
           name == PredictorOf(l).endpoint_name
       IN  /\ request' = [endpoint |-> name, payload |-> payload]
           /\ \E out \in Invoke(sm_endpoints, name, payload) :
                 IF out.ok
                 THEN /\ pred' = out.body
                      /\ IF then = "end" THEN Advance
                         ELSE pc' = then /\ UNCHANGED << status, resume >>
                 ELSE /\ pred' = pred
                      /\ Raise
    /\ UNCHANGED << dataVars, job, clock, platformVars, rand, true_label, sentence_pair,
                    evalVars >>

InferRtLabel == InferCall("rt", "infer_rt", "infer_rt_score")
InferRtScore == InferCall("rt", "infer_rt_score", "end")
InferSlLabel == InferCall("sl", "infer_sl", "infer_sl_score")
InferSlScore == InferCall("sl", "infer_sl_score", "end")

\* ---------------------------------------------------------------- cell 7: evaluation
RECURSIVE SplitFrom(_, _, _)
\* str.split(sep) on characters: cur is the piece being read.
SplitFrom(str, sep, cur) ==
    IF str = << >> THEN << cur >>
    ELSE IF Head(str) = sep THEN << cur >> \o SplitFrom(Tail(str), sep, << >>)
    ELSE SplitFrom(Tail(str), sep, Append(cur, Head(str)))

Split(str, sep) == SplitFrom(str, sep, << >>)

DigitValue(ch) == CHOOSE d \in 0..9 : DigitChars[d + 1] = ch

RECURSIVE IntOf(_)
\* int(s) for a string of decimal digits
IntOf(digits) ==
    IF digits = << >> THEN 0
    ELSE 10 * IntOf(SubSeq(digits, 1, Len(digits) - 1)) + DigitValue(digits[Len(digits)])

\* int(pred[0]['label'].split('_')[1])
\* The class is taken from the score: 1 above one half.
PredictedLabelFromScore(response) == IF response[1].score > 50 THEN 1 ELSE 0

PredictedLabel(response) == IntOf(Split(response[1].label, "_")[2])

EvalLoops == {"rt", "sl"}

StartOf(l) == IF l = "rt" THEN "eval_rt" ELSE "eval_sl"
LoopOf(l) == IF l = "rt" THEN "eval_rt_loop" ELSE "eval_sl_loop"

PredsOf(l) == IF l = "rt" THEN preds ELSE preds2

\* The cell keeps the lists of an earlier execution.
FreshListKept(old) == old

\* preds = [] / labels = [] at the top of the cell
FreshList(old) == << >>

\* The top of an evaluation cell: both lists are emptied and the loop starts.
EvalStart(l) ==
    /\ Running /\ pc = StartOf(l)
    /\ i' = 0
    /\ sent' = 0
    /\ IF l = "rt"
       THEN /\ preds' = FreshList(preds) /\ labels' = FreshList(labels)
            /\ UNCHANGED << preds2, labels2 >>
       ELSE /\ preds2' = FreshList(preds2) /\ labels2' = FreshList(labels2)
            /\ UNCHANGED << preds, labels >>
    /\ runs' = [runs EXCEPT ![l] = @ + 1]
    /\ pc' = LoopOf(l)
    /\ UNCHANGED << status, resume, dataVars, job, clock, platformVars, inferVars,
                    first_preds, printed >>

\* The loop takes the records in the order of the partition.
RecordAt(k) == dataset_test[k + 1]

\* Only every other record is visited.
NextIndexSkipping(k) == k + 2

\* for i in range(len(dataset_test))
NextIndex(k) == k + 1

\* One iteration: one request for record i; the two appends follow the answer.
EvalIter(l) ==
    /\ Running /\ pc = LoopOf(l)
    /\ i < Len(dataset_test)
    /\ LET rec == RecordAt(i)
           payload == LoopPayload(rec.sentence1, rec.sentence2)
           name == PredictorOf(l).endpoint_name
       IN  /\ true_label' = rec.label
           /\ sentence_pair' = payload
           /\ request' = [endpoint |-> name, payload |-> payload]
           /\ sent' = sent + 1
           /\ \E out \in Invoke(sm_endpoints, name, payload) :
                 IF out.ok
                 THEN /\ pred' = out.body
                      /\ IF l = "rt"
                         THEN /\ labels' = Append(labels, rec.label)
                              /\ preds' = Append(preds, PredictedLabel(out.body))
                              /\ UNCHANGED << preds2, labels2 >>
                         ELSE /\ labels2' = Append(labels2, rec.label)
                              /\ preds2' = Append(preds2, PredictedLabel(out.body))
                              /\ UNCHANGED << preds, labels >>
                      /\ i' = NextIndex(i)
                      /\ UNCHANGED << pc, status, resume >>
                 ELSE /\ Raise
                      /\ UNCHANGED << pred, i, preds, labels, preds2, labels2 >>
    /\ UNCHANGED << dataVars, job, clock, platformVars, rand, runs, first_preds, printed >>

\* The range is exhausted: the cell ends.
EvalEnd(l) ==
    /\ Running /\ pc = LoopOf(l)
    /\ i >= Len(dataset_test)
    /\ runs' = runs
    /\ first_preds' = IF runs[l] = 1 THEN [first_preds EXCEPT ![l] = PredsOf(l)]
                      ELSE first_preds
    /\ Advance
    /\ UNCHANGED << dataVars, job, clock, platformVars, inferVars,
                    i, preds, labels, preds2, labels2, sent, printed >>

class_names == << "paraphase", "not paraphrase" >>

Classes(y_true, y_pred) ==
    { y_true[k] : k \in 1..Len(y_true) } \cup { y_pred[k] : k \in 1..Len(y_pred) }

\* print('Endpoint Name:', ...); print(classification_report(y_true, y_pred,
\* target_names=class_names)): the report needs as many classes as names.
Report(endpoint_name, y_true, y_pred) ==
    IF Cardinality(Classes(y_true, y_pred)) = Len(class_names)
    THEN /\ printed' = Append(printed, [endpoint_name |-> endpoint_name,
                                        y_true |-> y_true, y_pred |-> y_pred])
         /\ Advance
    ELSE /\ printed' = Append(printed, [endpoint_name |-> endpoint_name])
         /\ Raise

ReportRt ==
    /\ Running /\ pc = "report_rt"
    /\ Report(rt_predictor.endpoint_name, labels, preds)
    /\ UNCHANGED << dataVars, job, clock, platformVars, inferVars,
                    i, preds, labels, preds2, labels2, sent, runs, first_preds >>

ReportSl ==
    /\ Running /\ pc = "report_sl"
    /\ Report(rt_predictor.endpoint_name, labels2, preds2)
    /\ UNCHANGED << dataVars, job, clock, platformVars, inferVars,
                    i, preds, labels, preds2, labels2, sent, runs, first_preds >>

\* ---------------------------------------------------------------- cell 8: cleanup
\* The endpoint is deleted before its model.
CleanupCallEndpointFirst(p) ==
    CASE p = "cleanup"             -> [kind |-> "endpoint", of |-> "rt"]
      [] p = "cleanup_rt_endpoint" -> [kind |-> "model", of |-> "rt"]
      [] p = "cleanup_sl_model"    -> [kind |-> "endpoint", of |-> "sl"]
      [] OTHER                     -> [kind |-> "model", of |-> "sl"]

\* The four calls of the cell, by position.
CleanupCall(p) ==
    CASE p = "cleanup"             -> [kind |-> "model", of |-> "rt"]
      [] p = "cleanup_rt_endpoint" -> [kind |-> "endpoint", of |-> "rt"]
      [] p = "cleanup_sl_model"    -> [kind |-> "model", of |-> "sl"]
      [] OTHER                     -> [kind |-> "endpoint", of |-> "sl"]

CleanupNext(p) ==
    CASE p = "cleanup"             -> "cleanup_rt_endpoint"
      [] p = "cleanup_rt_endpoint" -> "cleanup_sl_model"
      [] p = "cleanup_sl_model"    -> "cleanup_sl_endpoint"
      [] OTHER                     -> "end"

CleanupPositions == {"cleanup", "cleanup_rt_endpoint", "cleanup_sl_model", "cleanup_sl_endpoint"}

\* The endpoint stays in service.
DeleteEndpointKept(eps, name) == eps

\* predictor.delete_endpoint(): the endpoint of that name is gone.
DeleteEndpoint(eps, name) == { e \in eps : e.name # name }

\* predictor.delete_model(): the model records the endpoint names are deleted.
DeleteModel(models, eps, name) ==
    { m \in models : m.name # EndpointNamed(eps, name).model }

\* One delete call: it is sent as the cell reaches it; delete_model finds the
\* model through the endpoint, so both calls raise when the endpoint is gone,
\* and the platform may refuse either.
Cleanup ==
    /\ Running /\ pc \in CleanupPositions
    /\ LET call == CleanupCall(pc)
           name == PredictorOf(call.of).endpoint_name
       IN  \/ /\ name \in EndpointNames(sm_endpoints)
              /\ deletes' = Append(deletes, [kind |-> call.kind, endpoint |-> name])
              /\ IF call.kind = "model"
                 THEN /\ sm_models' = DeleteModel(sm_models, sm_endpoints, name)
                      /\ sm_endpoints' = sm_endpoints
                 ELSE /\ sm_endpoints' = DeleteEndpoint(sm_endpoints, name)
                      /\ sm_models' = sm_models
              /\ IF CleanupNext(pc) = "end" THEN Advance
                 ELSE pc' = CleanupNext(pc) /\ UNCHANGED << status, resume >>
           \/ /\ Raise
              /\ UNCHANGED << sm_models, sm_endpoints, deletes >>
    /\ UNCHANGED << dataVars, job, clock, rt_predictor, sl_predictor, inferVars, evalVars >>

\* ---------------------------------------------------------------- the run
Next ==
    \/ LoadDataset
    \/ TokenizeDatasets
    \/ FormatDatasets
    \/ Publish
    \/ FitSubmit
    \/ JobStart
    \/ JobSucceed
    \/ JobFail
    \/ FitWait
    \/ DeployRt
    \/ DeploySl
    \/ Sample
    \/ InferRtLabel
    \/ InferRtScore
    \/ InferSlLabel
    \/ InferSlScore
    \/ \E l \in EvalLoops : EvalStart(l)
    \/ \E l \in EvalLoops : EvalIter(l)
    \/ \E l \in EvalLoops : EvalEnd(l)
    \/ ReportRt
    \/ ReportSl
    \/ Cleanup

\* One run of the notebook, top to bottom.
Spec == Init /\ [][Next]_vars

\* ---------------------------------------------------------------- cells executed again
\* With the kernel idle before the cleanup cell or after the last cell, an
\* evaluation cell is executed again on its own.
RerunEval(l) ==
    /\ resume = "none"
    /\ \/ status = "running" /\ pc = "cleanup"
       \/ status = "finished" /\ pc = "done"
    /\ runs[l] >= 1 /\ runs[l] < MaxRuns
    /\ resume' = pc
    /\ pc' = StartOf(l)
    /\ status' = "running"
    /\ UNCHANGED << dataVars, job, clock, platformVars, inferVars, evalVars >>

NextRerun ==
    \/ Next
    \/ \E l \in EvalLoops : RerunEval(l)

SpecRerun == Init /\ [][NextRerun]_vars

\* ---------------------------------------------------------------- tokenize alone
\* The tokenize cell executed on its own, on one batch with a chosen max_len;
\* the batch is held in dataset_train and the result in dataset_train_tokenized.
InitTokenize ==
    /\ pc = "tokenize" /\ status = "running" /\ resume = "done"
    /\ max_len \in MinMaxLen..MaxMaxLen
    /\ dataset_train \in SeqsUpTo(Records, MaxBatch)
    /\ dataset_val = << >> /\ dataset_test = << >>
    /\ dataset_train_tokenized = << >> /\ dataset_val_tokenized = << >>
    /\ s3 = {}
    /\ job = None
    /\ clock = 0
    /\ sm_models = {} /\ sm_endpoints = {} /\ deletes = << >>
    /\ rt_predictor = None /\ sl_predictor = None
    /\ rand = 0 /\ true_label = 0 /\ sentence_pair = None /\ pred = << >>
    /\ request = None
    /\ i = 0 /\ preds = << >> /\ labels = << >> /\ preds2 = << >> /\ labels2 = << >>
    /\ sent = 0
    /\ runs = [l \in {"rt", "sl"} |-> 0]
    /\ first_preds = [l \in {"rt", "sl"} |-> << >>]
    /\ printed = << >>

NextTokenize == TokenizeDatasets

SpecTokenize == InitTokenize /\ [][NextTokenize]_vars

\* ================================================================ claims
CellOrder == << "load_dataset", "tokenize", "format", "publish", "fit", "deploy_rt",
                "deploy_sl", "sample", "infer_rt", "infer_sl", "eval_rt", "report_rt",
                "eval_sl", "report_sl", "cleanup", "done" >>

CellIndex(p) == CHOOSE k \in 1..Len(CellOrder) : CellOrder[k] = CellOf(p)

\* What a stage leaves behind once it has completed.
StageCompleted(n) ==
    CASE n = 1 -> dataset_train # << >> /\ dataset_val # << >> /\ dataset_test # << >>
      [] n = 2 -> /\ Len(dataset_train_tokenized) = Len(dataset_train)
                  /\ Len(dataset_val_tokenized) = Len(dataset_val)
                  /\ \A k \in 1..Len(dataset_train_tokenized) :
                        "labels" \in DOMAIN dataset_train_tokenized[k]
      [] n = 3 -> { o.path : o \in s3 } = { training_input_path, val_input_path }
      [] n = 4 -> job # None /\ job.status = "Succeeded"
      [] n = 5 -> rt_predictor # None /\ sl_predictor # None
      [] n = 6 -> sentence_pair # None /\ pred # << >>
      [] n = 7 -> Len(printed) = 2 /\ Len(preds) = Len(dataset_test)
                  /\ Len(preds2) = Len(dataset_test)
      [] OTHER -> Len(deletes) = 4

\* C1: in one run of the notebook the eight stages execute in the order
\* dataset, tokenization, publication, training, deployment, inference,
\* evaluation, teardown: every step stays in its stage or moves to the next
\* one (none skipped, none re-entered), and a stage is entered only with
\* every earlier stage completed.
C1_StagesInOrder ==
    /\ [](\A n \in 1..8 : StageOf(pc) > n => StageCompleted(n))
    /\ [][ /\ StageOf(pc') \in { StageOf(pc), StageOf(pc) + 1 }
           /\ (StageOf(pc') # StageOf(pc) => status = "running" /\ status' # "failed") ]_vars

C1_Witness == status = "finished" /\ pc = "done" /\ Len(deletes) = 4

\* C2: once a call has raised, the run has halted at that cell: no step
\* follows (no retry, no later stage), and the step that raises leaves the
\* run at the cell of the failing call.
C2_ErrorHalts ==
    [][ /\ (status = "failed" => UNCHANGED vars)
        /\ (status' = "failed" => pc' = pc) ]_vars

C2_Witness == status = "failed" /\ pc = "eval_rt_loop" /\ Len(preds) >= 1

\* C3: fit returns normally only with the job Succeeded and raises only with
\* the job Failed, so every cell after it runs with a Succeeded job that has
\* an artifact; a job that has not succeeded has no artifact, no deployed
\* model and no endpoint.
C3_DeployOnlyAfterSuccess ==
    /\ (StageOf(pc) > 4 => job # None /\ job.status = "Succeeded" /\ job.artifact # None)
    /\ (pc = "fit_wait" /\ status = "failed" => job.status = "Failed")
    /\ (job # None /\ job.status # "Succeeded" => job.artifact = None)
    /\ (job = None \/ job.status # "Succeeded" =>
            /\ sm_models = {} /\ sm_endpoints = {}
            /\ rt_predictor = None /\ sl_predictor = None)

C3_Witness == pc = "deploy_sl" /\ status = "running" /\ Cardinality(sm_endpoints) = 1

IsPrefix(a, b) == Len(a) <= Len(b) /\ \A k \in 1..Len(a) : a[k] = b[k]

\* C4: the delete calls are, in this order, the real-time endpoint's model,
\* the real-time endpoint, the serverless endpoint's model, the serverless
\* endpoint; each is the next call of the cell, and when the cell has ended
\* all four were made and no model record or endpoint is left.
C4_TeardownOrder ==
    /\ (deletes # << >> =>
            IsPrefix(deletes,
                     << [kind |-> "model", endpoint |-> rt_predictor.endpoint_name],
                        [kind |-> "endpoint", endpoint |-> rt_predictor.endpoint_name],
                        [kind |-> "model", endpoint |-> sl_predictor.endpoint_name],
                        [kind |-> "endpoint", endpoint |-> sl_predictor.endpoint_name] >>))
    /\ (pc \in CleanupPositions =>
            Len(deletes) = (CHOOSE k \in 0..3 :
                              << "cleanup", "cleanup_rt_endpoint", "cleanup_sl_model",
                                 "cleanup_sl_endpoint" >>[k + 1] = pc))
    /\ (status = "finished" => Len(deletes) = 4 /\ sm_models = {} /\ sm_endpoints = {})

C4_Witness == status = "finished" /\ Len(deletes) = 4 /\ sm_endpoints = {}

TornDown ==
    /\ Len(deletes) = 4
    /\ rt_predictor.endpoint_name \notin EndpointNames(sm_endpoints)
    /\ sl_predictor.endpoint_name \notin EndpointNames(sm_endpoints)

\* C5: once the cleanup cell has ended, both endpoint names are gone and a
\* request to either has no successful outcome; an evaluation cell executed
\* again then sends its first request, which raises: no prediction is
\* appended and the cell ends there.
C5_NoAnswerAfterTeardown ==
    /\ [](status = "finished" \/ resume = "done" =>
            /\ TornDown
            /\ \A l \in EvalLoops : \A r \in SmallRecords :
                  \A out \in Invoke(sm_endpoints, PredictorOf(l).endpoint_name,
                                    LoopPayload(r.sentence1, r.sentence2)) : ~out.ok
            /\ (pc = "eval_rt_loop" \/ pc = "eval_sl_loop" => i = 0 /\ sent = 0))
    /\ [][ resume = "done" /\ sent' = sent + 1 =>
              /\ pc' = "done" /\ status' = "finished"
              /\ preds' = << >> \/ preds2' = << >>
              /\ UNCHANGED << pred, preds, preds2, labels, labels2, i >> ]_vars

C5_Witness ==
    /\ status = "finished" /\ pc = "done" /\ TornDown
    /\ runs["sl"] = 2 /\ preds2 = << >> /\ sent = 1
    /\ request.endpoint = sl_predictor.endpoint_name

\* C6: from the return of the second deploy call until the first delete call,
\* exactly two endpoints are in service, named as the two predictors, with
\* different names, one with instance type ml.g4dn.xlarge and count 1 and one
\* serverless with 6144 MB and concurrency 10, both holding the artifact of
\* the one training job.
C6_TwoEndpoints ==
    rt_predictor # None /\ sl_predictor # None /\ deletes = << >> =>
        /\ Cardinality(sm_endpoints) = 2
        /\ rt_predictor.endpoint_name # sl_predictor.endpoint_name
        /\ \E e1 \in sm_endpoints, e2 \in sm_endpoints :
              /\ e1.name = rt_predictor.endpoint_name
              /\ e2.name = sl_predictor.endpoint_name
              /\ e1.status = "InService" /\ e2.status = "InService"
              /\ e1.capacity = [kind |-> "instance", instance_type |-> "ml.g4dn.xlarge",
                                initial_instance_count |-> 1]
              /\ e2.capacity = [kind |-> "serverless", memory_size_in_mb |-> 6144,
                                max_concurrency |-> 10]
              /\ e1.artifact = job.artifact /\ e2.artifact = job.artifact
              /\ job.artifact.job = job.name

C6_Witness == pc = "eval_sl_loop" /\ status = "running" /\ Cardinality(sm_endpoints) = 2

TemplateOfRecord(r) ==
    << "[CLS] " >> \o r.sentence1 \o << " [SEP] " >> \o r.sentence2 \o << " [SEP]" >>

\* C7 as stated: every request's payload is {"inputs": s} with s a single
\* string, the template applied to the record's two sentences.
C7_InputsIsOneString ==
    request # None =>
        /\ DOMAIN request.payload = {"inputs"}
        /\ request.payload.inputs.kind = "str"
        /\ \E k \in 1..Len(dataset_test) :
              request.payload.inputs.val = TemplateOfRecord(dataset_test[k])

\* C7, amended: every request's payload is {"inputs": x}; in the
\* single-example cells x is the string the template gives for the sampled
\* record, in the evaluation loops x is a list of one string, the one the
\* template gives for the record of the iteration.
C7_TemplateInStringOrList ==
    request # None =>
        /\ DOMAIN request.payload = {"inputs"}
        /\ \/ /\ request.payload.inputs.kind = "str"
              /\ request.payload.inputs.val = TemplateOfRecord(dataset_test[rand + 1])
           \/ /\ request.payload.inputs.kind = "list"
              /\ Len(request.payload.inputs.val) = 1
              /\ request.payload.inputs.val[1].kind = "str"
              /\ \E k \in 1..Len(dataset_test) :
                    /\ request.payload.inputs.val[1].val = TemplateOfRecord(dataset_test[k])
                    /\ true_label = dataset_test[k].label
                    /\ (sent = 0 \/ k = sent)
        /\ (StageOf(pc) = 6 => request.payload.inputs.kind = "str")
        /\ (pc \in {"eval_rt_loop", "eval_sl_loop"} /\ sent >= 1 =>
                request.payload.inputs.kind = "list")

C7_Witness ==
    /\ pc = "eval_sl_loop" /\ sent = Len(dataset_test) /\ request # None
    /\ request.payload.inputs.kind = "list"

ExpectedPred(k) == Classify(job.artifact.classifier, TemplateOfRecord(dataset_test[k]))

LoopInvariant(l, ys, ps) ==
    /\ (pc = LoopOf(l) =>
            /\ Len(ys) = i /\ Len(ps) = i /\ i <= Len(dataset_test)
            /\ sent = IF status = "failed" THEN i + 1 ELSE i)
    /\ (CellIndex(pc) > CellIndex(StartOf(l)) =>
            Len(ys) = Len(dataset_test) /\ Len(ps) = Len(dataset_test))
    /\ (pc = LoopOf(l) \/ CellIndex(pc) > CellIndex(StartOf(l)) =>
            \A k \in 1..Len(ps) :
                ys[k] = dataset_test[k].label /\ ps[k] = ExpectedPred(k))

\* C8: in each evaluation loop, after k iterations k requests were sent and
\* labels and preds both have length k, element j of each belonging to
\* record j of the test partition; once the loop has ended both have the
\* length of the test partition.
C8_LoopParallelLists ==
    /\ LoopInvariant("rt", labels, preds)
    /\ LoopInvariant("sl", labels2, preds2)

C8_Witness ==
    /\ pc = "report_sl" /\ Len(preds2) = NTest /\ Len(preds) = NTest /\ sent = NTest
    /\ preds # labels

\* C9: an evaluation cell executed again on the same partition and endpoint
\* and run to its end leaves the predicted labels of its first execution:
\* same length, same element at every index.
C9_RerunSamePreds ==
    \A l \in EvalLoops :
        /\ runs[l] >= 2
        /\ pc \notin { StartOf(l), LoopOf(l) }
        /\ Len(PredsOf(l)) >= Len(dataset_test)
        => PredsOf(l) = first_preds[l]

C9_Witness ==
    /\ runs["rt"] = 2 /\ pc = "cleanup" /\ resume = "none" /\ status = "running"
    /\ Len(preds) = NTest /\ preds = first_preds["rt"]

PairLen(r) == Len(r.sentence1) + Len(r.sentence2) + 4

Tokenized == pc # "tokenize"

\* C10 as stated: the tokenized batch has one record per input record and
\* all its input_ids have one length, as have all its attention_masks.
C10_Rectangular ==
    Tokenized =>
        /\ Len(dataset_train_tokenized) = Len(dataset_train)
        /\ \A j, k \in 1..Len(dataset_train_tokenized) :
              /\ Len(dataset_train_tokenized[j].input_ids)
                    = Len(dataset_train_tokenized[k].input_ids)
              /\ Len(dataset_train_tokenized[j].attention_mask)
                    = Len(dataset_train_tokenized[k].attention_mask)

\* C10, amended: the tokenized batch has one record per input record; in each
\* record input_ids and attention_mask have the same length, which is the
\* pair's own token count when that is at most max_len and max_len otherwise
\* (nothing is padded, so the lengths of a batch may differ).
C10_TruncatedNotPadded ==
    Tokenized =>
        /\ Len(dataset_train_tokenized) = Len(dataset_train)
        /\ \A k \in 1..Len(dataset_train_tokenized) :
              /\ Len(dataset_train_tokenized[k].input_ids)
                    = Len(dataset_train_tokenized[k].attention_mask)
              /\ Len(dataset_train_tokenized[k].input_ids)
                    = IF PairLen(dataset_train[k]) <= max_len
                      THEN PairLen(dataset_train[k]) ELSE max_len

C10_Witness ==
    /\ Tokenized /\ Len(dataset_train_tokenized) = 2
    /\ PairLen(dataset_train[1]) < max_len /\ PairLen(dataset_train[2]) > max_len
    /\ Len(dataset_train_tokenized[1].input_ids) < Len(dataset_train_tokenized[2].input_ids)

C12_ParsedLabel ==
    /\ \A l \in EvalLoops :
          pc = LoopOf(l) /\ i >= 1 /\ Len(PredsOf(l)) >= 1 =>
              /\ pred[1].label \in { << "L", "A", "B", "E", "L", "_", "0" >>,
                                     << "L", "A", "B", "E", "L", "_", "1" >> }
              /\ (pred[1].label[7] = "0" => PredsOf(l)[Len(PredsOf(l))] = 0)
              /\ (pred[1].label[7] = "1" => PredsOf(l)[Len(PredsOf(l))] = 1)
    /\ \A k \in 1..Len(preds) : preds[k] \in {0, 1}
    /\ \A k \in 1..Len(preds2) : preds2[k] \in {0, 1}

C12_Witness ==
    /\ pc = "eval_sl_loop" /\ i = NTest /\ status = "running"
    /\ \E j, k \in 1..Len(preds2) : preds2[j] = 0 /\ preds2[k] = 1

\* C13: each report is printed with the name of the endpoint its predictions
\* came from: the first (labels, preds) with the real-time endpoint's name,
\* the second (labels2, preds2) with the serverless endpoint's name.
C13_ReportNamesItsEndpoint ==
    /\ (Len(printed) >= 1 => printed[1].endpoint_name = rt_predictor.endpoint_name)
    /\ (Len(printed) >= 2 => printed[2].endpoint_name = sl_predictor.endpoint_name)

\* C14: delete calls are made only in a run whose stages 1 to 7 all completed;
\* a run that has failed before the cleanup cell has made no delete call, and
\* every endpoint a deploy call returned is still in service.
C14_NoTeardownOnFailure ==
    /\ (deletes # << >> => status # "failed" \/ StageOf(pc) = 8)
    /\ (deletes # << >> => \A n \in 1..7 : StageCompleted(n))
    /\ (status = "failed" /\ StageOf(pc) < 8 =>
            /\ deletes = << >>
            /\ \A l \in EvalLoops :
                  PredictorOf(l) # None =>
                      \E e \in sm_endpoints :
                          e.name = PredictorOf(l).endpoint_name /\ e.status = "InService")

C14_Witness ==
    /\ status = "failed" /\ pc = "eval_sl_loop" /\ deletes = << >>
    /\ Cardinality(sm_endpoints) = 2 /\ Len(preds) = NTest

====
